---- MODULE Spec2Model ----
(***************************************************************************)
(* A model of the dfm_tb helper functions: the p-value formatters of       *)
(* utilities.py, get_steigers_z of stats.py and the table builders of      *)
(* tables.py.                                                              *)
(*                                                                         *)
(* Numbers.  A p-value is an exact rational [num, den].  The values with a *)
(* power-of-two denominator are floats that hold exactly that rational;    *)
(* 1/10000 stands for the float literal 0.0001, the very float the code    *)
(* compares against.  Python writes a float with f"{p:.{d}f}" by rounding  *)
(* its exact value to d decimals, ties to even, which is what Rounded      *)
(* computes.                                                               *)
(*                                                                         *)
(* Tables.  A data frame is [columns, nrows, na]: the column names in      *)
(* order, the number of rows and the set of <<row, column>> cells that     *)
(* hold a missing value.  The numeric content of the other cells is not    *)
(* modelled: a correlation is the symbolic value [vars, rows, method]      *)
(* naming the two columns, the rows and the method it is computed from,    *)
(* and a z statistic names the correlations that enter its formula, in     *)
(* their order.  What the arithmetic yields on the data is fixed by the    *)
(* data but not told by the model of the table, so it is drawn when it is  *)
(* first computed and kept with the caller's data from then on: the        *)
(* p-value of a z statistic in two_tailed_p (nan standing for data on      *)
(* which the arithmetic is undefined) and the order an unstable sort gives *)
(* rows of equal count in sort_order.  Where the code fixes the p-value,   *)
(* nothing is drawn: nan when fewer than 3 rows are left, and 1.0 or nan   *)
(* when exactly 3 are.  No function depends on the order of the rows, so   *)
(* the tables have the rows that hold missing values first.                *)
(*                                                                         *)
(* Calls.  Spec runs one call from every input; SpecCalls runs sequences   *)
(* of calls on the smaller tables and remembers one earlier call, to       *)
(* compare a later call of the same function and arguments with it.        *)
(*                                                                         *)
(* Imports.  The repository holds two copies of dfm_tb.utilities, the      *)
(* source one (format_pval_flt(p, digits)) and the built one under         *)
(* build/lib (format_pval_flt(p, digits=4)).  Which one the import of      *)
(* stats.py finds depends on the installation, so it is an input,          *)
(* utilities.                                                              *)
(***************************************************************************)
EXTENDS Integers, Naturals, Sequences, FiniteSets, TLC

\* ------------------------------------------------------------------ bounds
MaxNum == 12
MaxDigits == 5
MaxLen == 2
MaxCols == 4
NRows == 4
MaxMissing == 2
MaxColsCalls == 3

\* ------------------------------------------------------- program constants
DefaultDigits == 4
ThresholdDen == 10000

\* ------------------------------------------------------------- arithmetic
RECURSIVE Pow(_, _)
Pow(b, e) == IF e = 0 THEN 1 ELSE b * Pow(b, e - 1)

\* Python's None, and a given number of digits d, as arguments.
None == <<>>
Some(d) == <<d>>

\* The float literal 0.0001 of the comparisons.
Threshold == [num |-> 1, den |-> ThresholdDen]

\* The float nan: what arithmetic on np.sqrt of a negative number gives.
NaN == [num |-> 0, den |-> 0]
IsNaN(p) == p.den = 0

\* p < 0.0001 on floats: False when p is nan.
LessThanThreshold(p) == ~IsNaN(p) /\ p.num * Threshold.den < Threshold.num * p.den

\* The integer nearest to p * 10^d, ties to even: the digits f"{p:.{d}f}" writes.
Rounded(p, d) ==
    LET scaled == p.num * Pow(10, d)
        q == scaled \div p.den
        r == scaled % p.den
    IN  IF 2 * r > p.den \/ (2 * r = p.den /\ q % 2 = 1) THEN q + 1 ELSE q

\* The d decimal digits of v, most significant first.
FracDigits(v, d) == [i \in 1..d |-> (v \div Pow(10, d - i)) % 10]

\* The strings the formatters return: "<0.0001", or an integer part and the
\* decimals after the point.
\* f"{p:.{d}f}" writes nan as "nan".
LT == [kind |-> "<0.0001", int |-> 0, frac |-> <<>>]
NaNText == [kind |-> "nan", int |-> 0, frac |-> <<>>]
Fixed(p, d) ==
    IF IsNaN(p) THEN NaNText
    ELSE [kind |-> "fixed", int |-> Rounded(p, d) \div Pow(10, d),
          frac |-> FracDigits(Rounded(p, d) % Pow(10, d), d)]

\* What a call gives back: a value, or the exception it raised.
Returns(v) == [exc |-> "none", value |-> v]
Raises(e) == [exc |-> e, value |-> <<>>]

\* -------------------------------------------------------------- utilities
\* format_pval_flt with the comparison written p <= 0.0001.
format_pval_flt_le(args) ==
    IF Len(args) < 2
    THEN Raises("TypeError")
    ELSE LET digits == IF args[2] = None THEN DefaultDigits ELSE args[2][1]
         IN  IF ~IsNaN(args[1]) /\ args[1].num * Threshold.den <= Threshold.num * args[1].den
             THEN Returns(LT)
             ELSE Returns(Fixed(args[1], digits))

\* dfm_tb/utilities.py: def format_pval_flt(p, digits). args is the positional
\* argument list of the call; digits has no default, so a call with p alone
\* raises TypeError before the body runs.
format_pval_flt(args) ==
    IF Len(args) < 2
    THEN Raises("TypeError")
    ELSE LET digits == IF args[2] = None THEN DefaultDigits ELSE args[2][1]
         IN  IF LessThanThreshold(args[1])
             THEN Returns(LT)
             ELSE Returns(Fixed(args[1], digits))

\* build/lib/dfm_tb/utilities.py: def format_pval_flt(p, digits=4). The body
\* has no None test: f"{p:.{None}f}" raises ValueError.
build_format_pval_flt(args) ==
    LET digits == IF Len(args) < 2 THEN Some(DefaultDigits) ELSE args[2]
    IN  IF LessThanThreshold(args[1])
        THEN Returns(LT)
        ELSE IF digits = None
             THEN Raises("ValueError")
             ELSE Returns(Fixed(args[1], digits[1]))

\* def format_pval_df(pvals, digits = None): the same in both copies.
format_pval_df(series, digits) ==
    LET d == IF digits = None THEN DefaultDigits ELSE digits[1]
    IN  [i \in 1..Len(series) |->
            IF LessThanThreshold(series[i]) THEN LT ELSE Fixed(series[i], d)]

\* ------------------------------------------------------------ data frames
ColumnNames == <<"A", "B", "C", "D", "E">>

RECURSIVE SubsetsUpTo(_, _)
SubsetsUpTo(S, m) ==
    IF m = 0 THEN {{}}
    ELSE LET prev == SubsetsUpTo(S, m - 1)
         IN  prev \cup {t \cup {x} : t \in prev, x \in S}

Range(s) == {s[j] : j \in 1..Len(s)}

\* The rows of the cells s, and s has its rows first.
RowsOf(s) == {cell[1] : cell \in s}
RowsFirst(s) == RowsOf(s) = 1..Cardinality(RowsOf(s))

\* The tables a call is given: distinctly named columns, NRows rows, and at
\* most MaxMissing missing cells, in the first rows.
DataFrames ==
    UNION {
        {[columns |-> SubSeq(ColumnNames, 1, k), nrows |-> NRows, na |-> s] :
            s \in {t \in SubsetsUpTo((1..NRows) \X Range(SubSeq(ColumnNames, 1, k)),
                                      MaxMissing) : RowsFirst(t)}} :
        k \in 0..MaxCols}

\* itertools.combinations(s, 2): the pairs <<s[a], s[b]>>, a < b, in
\* lexicographic order of the positions.
RECURSIVE combinations_from(_, _)
combinations_from(s, a) ==
    IF a >= Len(s) THEN <<>>
    ELSE [b \in 1..(Len(s) - a) |-> <<s[a], s[a + b]>>] \o combinations_from(s, a + 1)

combinations(s) == combinations_from(s, 1)

\* fromkeys without the removal of repeated names.
fromkeys_keep_all(s) == s

\* list(dict.fromkeys(s)): the first occurrence of every element, in order.
RECURSIVE fromkeys(_)
fromkeys(s) ==
    IF s = <<>> THEN <<>>
    ELSE LET init == fromkeys(SubSeq(s, 1, Len(s) - 1))
             last == s[Len(s)]
         IN  IF last \in Range(init) THEN init ELSE Append(init, last)

\* select_dropna with the rows dropped before the columns are selected:
\* df.dropna()[cols].
select_dropna_all(d, cols) ==
    [columns |-> cols,
     index |-> {r \in 1..d.nrows : \A c \in Range(d.columns) : <<r, c>> \notin d.na}]

\* df[cols].dropna().copy(): a new table of the columns cols and of the rows
\* of d that hold no missing value in any of them, under their row labels.
select_dropna(d, cols) ==
    [columns |-> cols,
     index |-> {r \in 1..d.nrows : \A c \in Range(cols) : <<r, c>> \notin d.na}]

\* frame_after_select with the rows dropped in place:
\* df.dropna(subset=cols, inplace=True).
frame_after_select_inplace(d, cols) ==
    LET kept == {r \in 1..d.nrows : \A c \in Range(cols) : <<r, c>> \notin d.na}
    IN  IF kept = 1..d.nrows THEN d
        ELSE [d EXCEPT !.nrows = Cardinality(kept), !.na = {}]

\* The table d after df[cols].dropna().copy() has run on it: every step of
\* the chain builds a new object.
frame_after_select(d, cols) == d

\* temp.corr(method): entry [a][b] is the correlation of columns a and b of
\* temp over all of its rows (temp holds no missing value).
corr(t, method) ==
    [a \in 1..Len(t.columns) |-> [b \in 1..Len(t.columns) |->
        [vars |-> {t.columns[a], t.columns[b]}, rows |-> t.index, method |-> method]]]

\* corr_mat.to_numpy()[np.triu(..., k=1)]: the entries above the diagonal,
\* row by row.
upper_triangle(m) ==
    LET at == combinations([a \in 1..Len(m) |-> a])
    IN  [c \in 1..Len(at) |-> m[at[c][1]][at[c][2]]]

\* The z statistic, by the correlations that enter it: z is built on
\* minuend - subtrahend (r12 - r13, or arctanh(r12) - arctanh(r34)), n and
\* the remaining correlations.
NoZ == [formula |-> "none", minuend |-> <<>>, subtrahend |-> <<>>, others |-> <<>>, n |-> 0]

overlapping_z(u, size) ==
    [formula |-> "overlapping", minuend |-> u[1], subtrahend |-> u[2],
     others |-> <<u[3]>>, n |-> size]

nonoverlapping_z(u, size) ==
    [formula |-> "nonoverlapping", minuend |-> u[1], subtrahend |-> u[6],
     others |-> <<u[2], u[3], u[4], u[5]>>, n |-> size]

\* The float 1.0.
One == [num |-> 1, den |-> 1]

\* p_value = 2 * (1 - norm.cdf(abs(z))): z carries the factor np.sqrt(n - 3).
\* For n < 3 the factor is nan, and so are z and the p-value. For n = 3 the
\* factor is 0: z is 0 and the p-value 1.0, unless the other factors are not
\* finite or the denominator is 0 or nan on the data, which gives nan. For
\* larger n the value is the one the data yields.
two_tailed(size, from_data) ==
    IF size < 3 THEN NaN
    ELSE IF size = 3 THEN (IF IsNaN(from_data) THEN NaN ELSE One)
    ELSE from_data

\* if len(flat) == 3: the overlapping branch, else the other one.
uses_overlapping(f) == Len(f) = 3

\* The number of entries of upper_vals a branch reads.
values_read(f) == IF uses_overlapping(f) THEN 3 ELSE 6

\* valid_method with "kendall" let through.
valid_method_any(m) == m \in {"spearman", "pearson", "kendall"}

\* if corr_method not in ["spearman", "pearson"]: raise ValueError
valid_method(m) == m \in {"spearman", "pearson"}

\* f"{pair[0][0]}-{pair[0][1]} vs. {pair[1][0]}-{pair[1][1]}", by its names.
comparison_label(pr) == <<pr[1][1], pr[1][2], pr[2][1], pr[2][2]>>

\* ------------------------------------------------------------------ state
VARIABLES
    df,                 \* the caller's table
    pvals,              \* the caller's series of p-values
    two_tailed_p,       \* the p-values the data has yielded so far, by z
    sort_order,         \* the orders the sort has given tied rows so far
    utilities,          \* the copy of dfm_tb.utilities the import finds
    earlier,            \* an earlier call and its outcome, or NoCall
    pc,                 \* position in the running call
    fn, args,           \* the function called and its arguments
    first_order_pairs, second_order_pairs, results,
    pos, pair, flat, temp, n, upper_vals, z, p_value,
    raised,             \* the exception that ended the call, or "none"
    ret                 \* the value the call returned

vars == <<df, pvals, two_tailed_p, sort_order, utilities, earlier, pc, fn, args,
          first_order_pairs, second_order_pairs, results, pos, pair, flat, temp,
          n, upper_vals, z, p_value, raised, ret>>

caller == <<df, pvals, utilities>>
known == <<two_tailed_p, sort_order>>
locals == <<first_order_pairs, second_order_pairs, results, pos, pair, flat,
            temp, n, upper_vals, z, p_value>>

NoTable == [columns |-> <<>>, index |-> {}]
NoValue == <<>>
Zero == [num |-> 0, den |-> 1]

\* from dfm_tb.utilities import format_pval_flt
imported_format_pval_flt(a) ==
    IF utilities = "dfm_tb/utilities.py" THEN format_pval_flt(a)
    ELSE build_format_pval_flt(a)

Methods == {"pearson", "spearman", "kendall", "Pearson"}

Dyadic == {[num |-> m, den |-> Pow(2, e)] : m \in 0..MaxNum, e \in {0, 1, 3, 14, 16}}
PVals == Dyadic \cup {Threshold, NaN}
\* The p-values the arithmetic of a comparison yields on the data.
DataPVals == {[num |-> 1, den |-> 16384], [num |-> 3, den |-> 8], NaN}

\* The p-values a comparison of statistic v can take: the one the same
\* arithmetic (the same correlations in the same order, the same n) has
\* yielded before, or else any the data can yield.
p_values(v) ==
    LET same == {e.p : e \in {d \in two_tailed_p : d.z = v}}
    IN  IF same # {} THEN same ELSE {two_tailed(v.n, d) : d \in DataPVals}

\* No earlier call is remembered.
NoCall == [fn |-> "none", args |-> <<>>, raised |-> "none", ret |-> <<>>]

DigitArgs == {None} \cup {Some(d) : d \in 0..MaxDigits}

FreshLocals ==
    /\ first_order_pairs = <<>>
    /\ second_order_pairs = <<>>
    /\ results = <<>>
    /\ pos = 0
    /\ pair = <<>>
    /\ flat = <<>>
    /\ temp = NoTable
    /\ n = 0
    /\ upper_vals = <<>>
    /\ z = NoZ
    /\ p_value = Zero

Init ==
    /\ df \in DataFrames
    /\ pvals = <<[num |-> 1, den |-> 16384], Threshold, [num |-> 3, den |-> 8]>>
    /\ utilities \in {"dfm_tb/utilities.py", "build/lib/dfm_tb/utilities.py"}
    /\ two_tailed_p = {}
    /\ sort_order = {}
    /\ earlier = NoCall
    /\ pc = "idle"
    /\ fn = "none"
    /\ args = <<>>
    /\ FreshLocals
    /\ raised = "none"
    /\ ret = NoValue

\* A call starts with fresh locals.
Enter(f, a, at) ==
    /\ fn' = f
    /\ args' = a
    /\ pc' = at
    /\ first_order_pairs' = <<>>
    /\ second_order_pairs' = <<>>
    /\ results' = <<>>
    /\ pos' = 0
    /\ pair' = <<>>
    /\ flat' = <<>>
    /\ temp' = NoTable
    /\ n' = 0
    /\ upper_vals' = <<>>
    /\ z' = NoZ
    /\ p_value' = Zero

\* A call that runs from its first line to its end in one step: out is its
\* outcome, d and s are the caller's table and series when it is over.
Run(f, a, out, d, s) ==
    /\ Enter(f, a, "done")
    /\ raised' = out.exc
    /\ ret' = out.value
    /\ df' = d
    /\ pvals' = s
    /\ UNCHANGED <<utilities, earlier>>

\* --------------------------------------------------------- get_steigers_z
call_get_steigers_z ==
    /\ pc = "idle"
    /\ \E m \in Methods : Enter("get_steigers_z", <<m>>, "validate")
    /\ raised' = "none"
    /\ ret' = NoValue
    /\ UNCHANGED <<caller, known, earlier>>

gsz_validate ==
    /\ pc = "validate"
    /\ IF valid_method(args[1])
       THEN pc' = "enumerate" /\ raised' = raised
       ELSE pc' = "done" /\ raised' = "ValueError"
    /\ UNCHANGED <<caller, known, earlier, fn, args, locals, ret>>

gsz_enumerate ==
    /\ pc = "enumerate"
    /\ first_order_pairs' = combinations(df.columns)
    /\ second_order_pairs' = combinations(first_order_pairs')
    /\ results' = <<>>
    /\ pc' = "loop"
    /\ UNCHANGED <<caller, known, earlier, fn, args, pos, pair, flat, temp, n,
                   upper_vals, z, p_value, raised, ret>>

\* One pass of the loop body up to the p-value.
gsz_compare ==
    /\ pc = "loop"
    /\ pos < Len(second_order_pairs)
    /\ pos' = pos + 1
    /\ pair' = second_order_pairs[pos + 1]
    /\ flat' = fromkeys(pair'[1] \o pair'[2])
    /\ temp' = select_dropna(df, flat')
    /\ df' = frame_after_select(df, flat')
    /\ n' = Cardinality(temp'.index)
    /\ upper_vals' = upper_triangle(corr(temp', args[1]))
    /\ IF Len(upper_vals') < values_read(flat')
       THEN /\ raised' = "IndexError"
            /\ pc' = "done"
            /\ UNCHANGED <<z, p_value, two_tailed_p>>
       ELSE /\ z' = IF uses_overlapping(flat')
                    THEN overlapping_z(upper_vals', n')
                    ELSE nonoverlapping_z(upper_vals', n')
            /\ p_value' \in p_values(z')
            /\ two_tailed_p' = IF Cardinality(p_values(z')) > 1
                               THEN two_tailed_p \cup {[z |-> z', p |-> p_value']}
                               ELSE two_tailed_p
            /\ pc' = "append"
            /\ raised' = raised
    /\ UNCHANGED <<pvals, utilities, sort_order, earlier, fn, args, first_order_pairs,
                   second_order_pairs, results, ret>>

\* results.append({... "p-value": format_pval_flt(p_value)})
gsz_append ==
    /\ pc = "append"
    /\ LET f == imported_format_pval_flt(<<p_value>>)
       IN  IF f.exc # "none"
           THEN /\ raised' = f.exc
                /\ pc' = "done"
                /\ results' = results
           ELSE /\ results' = Append(results,
                        [Comparison |-> comparison_label(pair), z |-> z,
                         pvalue |-> f.value])
                /\ pc' = "loop"
                /\ raised' = raised
    /\ UNCHANGED <<caller, known, earlier, fn, args, first_order_pairs,
                   second_order_pairs, pos, pair, flat, temp, n, upper_vals, z,
                   p_value, ret>>

\* return(pd.DataFrame(results))
gsz_return ==
    /\ pc = "loop"
    /\ pos = Len(second_order_pairs)
    /\ ret' = results
    /\ pc' = "done"
    /\ UNCHANGED <<caller, known, earlier, fn, args, locals, raised>>

\* -------------------------------------------------------------- tables.py
\* The rows of d that hold a value in column c.
notna_rows(d, c) == {r \in 1..d.nrows : <<r, c>> \notin d.na}

\* freq_prop(df, column, by): the value counts of column, over all rows or
\* within the groups of by, with N = len(df) in the header. The counts are
\* named by the column and the rows they are taken over.
freq_prop(d, column, by) ==
    IF column \notin Range(d.columns)
    THEN Raises("ValueError")
    ELSE IF by = None
    THEN Returns([of |-> column, by |-> None, counted |-> notna_rows(d, column),
                  N |-> d.nrows])
    ELSE IF by[1] \notin Range(d.columns)
    THEN Raises("KeyError")
    ELSE Returns([of |-> column, by |-> by,
                  counted |-> notna_rows(d, column) \cap notna_rows(d, by[1]),
                  N |-> d.nrows])

\* Float arithmetic. A float holds 53 significant bits; results are rounded
\* to the nearest float, ties to even.
RECURSIVE Increment(_)
Increment(bits) ==
    IF bits = <<>> THEN <<1>>
    ELSE IF bits[Len(bits)] = 0 THEN [bits EXCEPT ![Len(bits)] = 1]
    ELSE Append(Increment(SubSeq(bits, 1, Len(bits) - 1)), 0)

RECURSIVE BitsValue(_)
BitsValue(bits) ==
    IF bits = <<>> THEN 0
    ELSE 2 * BitsValue(SubSeq(bits, 1, Len(bits) - 1)) + bits[Len(bits)]

\* The first 53 significant bits of r / den (0 < r < den), most significant
\* first, their number of binary places and the remainder left.
RECURSIVE Expand(_, _, _, _)
Expand(r, den, bits, scale) ==
    IF Len(bits) = 53 THEN [mant |-> bits, rem |-> r, scale |-> scale]
    ELSE LET b == (2 * r) \div den
         IN  Expand((2 * r) % den, den,
                    IF bits = <<>> /\ b = 0 THEN <<>> ELSE Append(bits, b), scale + 1)

\* count / N on floats, 0 < count < N: the float mant * 2^-scale, and its
\* error in units of 2^-scale / N: mant * N - count * 2^scale.
float_div(count, N) ==
    LET e == Expand(count, N, <<>>, 0)
        up == 2 * e.rem > N \/ (2 * e.rem = N /\ e.mant[53] = 1)
    IN  [mant |-> IF up THEN Increment(e.mant) ELSE e.mant, scale |-> e.scale,
         error |-> IF up THEN N - e.rem ELSE 0 - e.rem]

\* 100 * bits \div 2^Len(bits): the part of the product 100 * bits that lies
\* above the width of bits, taken 16 bits at a time from the low end.
RECURSIVE Carry100(_)
Carry100(bits) ==
    IF Len(bits) <= 16 THEN (100 * BitsValue(bits)) \div Pow(2, Len(bits))
    ELSE (100 * BitsValue(SubSeq(bits, 1, 16)) + Carry100(SubSeq(bits, 17, Len(bits))))
             \div Pow(2, 16)

\* x * 100 on floats: the product 100 * mant is exact on Len(mant) + 6 bits
\* (below 2^6 above the width of mant) or Len(mant) + 7 bits and loses the
\* bits beyond 53; the result is what rounding adds to 100 * mant, in units
\* of 2^-scale.
float_times_100_error(x) ==
    LET low == BitsValue(SubSeq(x.mant, Len(x.mant) - 8, Len(x.mant)))
        extra == (Len(x.mant) - 53) + (IF Carry100(x.mant) >= 64 THEN 7 ELSE 6)
        dropped == (100 * low) % Pow(2, extra)
        odd == ((100 * low) \div Pow(2, extra)) % 2 = 1
        half == Pow(2, extra - 1)
    IN  IF dropped > half \/ (dropped = half /\ odd)
        THEN Pow(2, extra) - dropped
        ELSE 0 - dropped

\* The side of the exact 100 * count / N on which (count / N) * 100 on floats
\* lies (positive: above, negative: below, zero: equal): with x = count / N,
\* the float product is (100 * x.mant + float_times_100_error(x)) * 2^-x.scale.
float_side(count, N) ==
    LET x == float_div(count, N)
    IN  100 * x.error + N * float_times_100_error(x)

\* f"{(count / N) * 100:.1f}": the tenths written. Where the exact
\* percentage lies halfway between two tenths, the float the code computes
\* lies on one side of it, and that side decides; elsewhere the float rounds
\* as the exact percentage does.
proportion_tenths(count, N) ==
    LET exact == [num |-> count * 100, den |-> N]
        halfway == 2 * ((count * 1000) % N) = N
        side == float_side(count, N)
    IN  IF ~halfway \/ side = 0 THEN Rounded(exact, 1)
        ELSE (count * 1000) \div N + (IF side > 0 THEN 1 ELSE 0)

\* count = temp[col].sum(); f"{(count / N) * 100:.1f}%"
apply_row(d, col) ==
    LET count == Cardinality(notna_rows(d, col))
        tenths == proportion_tenths(count, d.nrows)
    IN  [name |-> col, count |-> count,
         proportion |-> [kind |-> "fixed", int |-> tenths \div 10,
                         frac |-> FracDigits(tenths % 10, 1)]]

\* The orders of the positions 1..m.
Orderings(m) ==
    {f \in [1..m -> 1..m] : \A a, b \in 1..m : a # b => f[a] # f[b]}

\* sort_values(by="count", ascending=False): the rows by decreasing count.
\* The default sort is not stable, so rows of equal count may come out in
\* any order; the sort being a function of its input, the same rows come
\* out as they did before.
sort_by_count(rows) ==
    LET same == {e.sorted : e \in {d \in sort_order : d.rows = rows}}
    IN  IF same # {} THEN same
        ELSE {[a \in 1..Len(rows) |-> rows[f[a]]] :
                 f \in {g \in Orderings(Len(rows)) :
                           \A a \in 1..(Len(rows) - 1) :
                               rows[g[a]].count >= rows[g[a + 1]].count}}

\* results: one row per column, in the order of columns.
all_apply_results(d, columns) == [a \in 1..Len(columns) |-> apply_row(d, columns[a])]

\* all_apply(df, columns, group_title, sort_by_percentage): the outcomes the
\* call can have.
all_apply(d, columns, sort_by_percentage) ==
    IF columns = <<>>
    THEN {Raises("ValueError")}
    ELSE IF \E a \in 1..Len(columns) : columns[a] \notin Range(d.columns)
    THEN {Raises("KeyError")}
    ELSE IF \E a \in 1..Len(columns) :
                notna_rows(d, columns[a]) \in {{}, 1..d.nrows}
    THEN {Raises("ValueError")}
    ELSE LET rows == all_apply_results(d, columns)
         IN  {Returns([rows |-> sorted, N |-> d.nrows]) :
                 sorted \in IF sort_by_percentage THEN sort_by_count(rows) ELSE {rows}}

\* summarize(data, column): the mean and the standard deviation of column,
\* named by the rows they are taken over, with their number in the header.
summarize(d, column) ==
    IF column \notin Range(d.columns)
    THEN Raises("KeyError")
    ELSE Returns([Characteristic |-> column, over |-> notna_rows(d, column),
                  N |-> Cardinality(notna_rows(d, column))])

\* The column arguments a caller passes: the table's columns and a name it
\* does not have.
ColumnArgs == Range(df.columns) \cup {"Z"}

RECURSIVE Sublists(_)
Sublists(s) ==
    IF s = <<>> THEN {<<>>}
    ELSE LET rest == Sublists(SubSeq(s, 2, Len(s)))
         IN  rest \cup {<<s[1]>> \o t : t \in rest}

\* The caller's table when freq_prop is over: the function reads df[column],
\* df[by] and len(df); value_counts, reset_index, rename, df[df[by] == b]
\* and merge each build a new object, and nothing is assigned into df.
df_after_freq_prop(d) == d

\* The caller's table when all_apply is over: df[columns].notna() builds a
\* new table; the one assignment into a table, out_df["formatted"] = ...,
\* is into out_df, built by pd.DataFrame(results) or sort_values.
df_after_all_apply(d) == d

\* The caller's table when summarize is over: data[column] is read three
\* times; notna, mean and std build new values.
df_after_summarize(d) == d

\* The caller's series when format_pval_df is over: pvals.apply builds a new
\* series.
pvals_after_format_pval_df(series) == series

call_freq_prop ==
    /\ pc = "idle"
    /\ \E column \in ColumnArgs, by \in {None} \cup {Some(c) : c \in ColumnArgs} :
           Run("freq_prop", <<column, by>>, freq_prop(df, column, by),
               df_after_freq_prop(df), pvals)
    /\ UNCHANGED known

call_all_apply ==
    /\ pc = "idle"
    /\ \E columns \in Sublists(df.columns) \cup {<<"Z">>}, sort \in BOOLEAN :
           \E out \in all_apply(df, columns, sort) :
               /\ Run("all_apply", <<columns, sort>>, out, df_after_all_apply(df), pvals)
               /\ sort_order' =
                      IF Cardinality(all_apply(df, columns, sort)) > 1
                      THEN sort_order \cup {[rows |-> all_apply_results(df, columns),
                                              sorted |-> out.value.rows]}
                      ELSE sort_order
    /\ UNCHANGED two_tailed_p

call_summarize ==
    /\ pc = "idle"
    /\ \E column \in ColumnArgs :
           Run("summarize", <<column>>, summarize(df, column),
               df_after_summarize(df), pvals)
    /\ UNCHANGED known

\* ------------------------------------------------------------ utilities.py
call_format_pval_df ==
    /\ pc = "idle"
    /\ \E digits \in DigitArgs :
           Run("format_pval_df", <<digits>>, Returns(format_pval_df(pvals, digits)),
               df, pvals_after_format_pval_df(pvals))
    /\ UNCHANGED known

call_format_pval_flt ==
    /\ pc = "idle"
    /\ \E a \in {<<p>> : p \in PVals} \cup (PVals \X DigitArgs) :
           Run("format_pval_flt", a, imported_format_pval_flt(a), df, pvals)
    /\ UNCHANGED known

\* The call is over: its frame is gone and the caller drops what it got.
return_to_caller ==
    /\ pc = "done"
    /\ Enter("none", <<>>, "idle")
    /\ raised' = "none"
    /\ ret' = NoValue
    /\ UNCHANGED <<caller, known, earlier>>

\* The call is over, and it is the one remembered from now on.
return_remembered ==
    /\ pc = "done"
    /\ earlier = NoCall
    /\ Enter("none", <<>>, "idle")
    /\ raised' = "none"
    /\ ret' = NoValue
    /\ earlier' = [fn |-> fn, args |-> args, raised |-> raised, ret |-> ret]
    /\ UNCHANGED <<caller, known>>

\* ---------------------------------------------------------- specifications
\* One call from every input.
Next ==
    \/ call_get_steigers_z
    \/ gsz_validate
    \/ gsz_enumerate
    \/ gsz_compare
    \/ gsz_append
    \/ gsz_return
    \/ call_freq_prop
    \/ call_all_apply
    \/ call_summarize
    \/ call_format_pval_df

Spec == Init /\ [][Next]_vars

\* Sequences of calls, on the tables of at most MaxColsCalls columns.
InitCalls ==
    /\ Init
    /\ Len(df.columns) <= MaxColsCalls

NextCalls ==
    \/ Next
    \/ return_to_caller
    \/ return_remembered

SpecCalls == InitCalls /\ [][NextCalls]_vars

\* The formatters alone, over the p-values and the series of the bounds.
SeriesVals == {p \in PVals : p.num = 1 /\ p.den \in {2, 16384, ThresholdDen}}

RECURSIVE SeqsUpTo(_, _)
SeqsUpTo(S, m) ==
    IF m = 0 THEN {<<>>}
    ELSE LET prev == SeqsUpTo(S, m - 1)
         IN  prev \cup {Append(t, x) : t \in prev, x \in S}

InitFormat ==
    /\ df = [columns |-> <<>>, nrows |-> 0, na |-> {}]
    /\ pvals \in SeqsUpTo(SeriesVals, MaxLen)
    /\ utilities \in {"dfm_tb/utilities.py", "build/lib/dfm_tb/utilities.py"}
    /\ two_tailed_p = {}
    /\ sort_order = {}
    /\ earlier = NoCall
    /\ pc = "idle"
    /\ fn = "none"
    /\ args = <<>>
    /\ FreshLocals
    /\ raised = "none"
    /\ ret = NoValue

NextFormat ==
    \/ call_format_pval_flt
    \/ call_format_pval_df
    \/ return_to_caller

SpecFormat == InitFormat /\ [][NextFormat]_vars

\* ------------------------------------------------------------- properties
Choose2(m) == (m * (m - 1)) \div 2

InSteiger == fn = "get_steigers_z"

\* A comparison of the running get_steigers_z call has been computed.
Compared == InSteiger /\ pos > 0

\* The correlations of a table, and the comparisons of two of them.
Correlations(cols) == {{a, b} : a, b \in cols} \ {{a} : a \in cols}
Comparisons(cols) ==
    {{c, d} : c, d \in Correlations(cols)} \ {{c} : c \in Correlations(cols)}

RowComparison(row) ==
    {{row.Comparison[1], row.Comparison[2]}, {row.Comparison[3], row.Comparison[4]}}

\* C1: get_steigers_z, called with a valid corr_method on a table of k
\* distinctly named columns, returns exactly one row per unordered pair of
\* two different correlations, C(C(k,2),2) rows, none missing or repeated,
\* in the order of enumeration; with fewer than 3 columns it returns no rows.
C1_OneRowPerComparison ==
    (InSteiger /\ pc = "done" /\ args[1] \in {"spearman", "pearson"}) =>
        /\ raised = "none"
        /\ Len(ret) = Choose2(Choose2(Len(df.columns)))
        /\ {RowComparison(ret[a]) : a \in 1..Len(ret)} = Comparisons(Range(df.columns))
        /\ \A a \in 1..Len(ret) :
               ret[a].Comparison = comparison_label(second_order_pairs[a])
        /\ (Len(df.columns) < 3 => ret = <<>>)

\* C2: every compared pair of correlations involves exactly 3 variables (one
\* shared) or exactly 4 (none shared); the overlapping formula is applied
\* exactly in the first case, the non-overlapping one exactly in the second;
\* the correlations read are exactly 3 or exactly 6, and no read is out of
\* range.
C2_ThreeOrFourVariables ==
    Compared =>
        LET first == {pair[1][1], pair[1][2]}
            second == {pair[2][1], pair[2][2]}
            shared == Cardinality(first \cap second)
            involved == Cardinality(first \cup second)
        IN  /\ raised # "IndexError"
            /\ \/ /\ involved = 3
                  /\ shared = 1
                  /\ z.formula = "overlapping"
                  /\ Len(upper_vals) = 3
               \/ /\ involved = 4
                  /\ shared = 0
                  /\ z.formula = "nonoverlapping"
                  /\ Len(upper_vals) = 6
            /\ Len(flat) = involved

\* C2 witness: a non-overlapping comparison has been computed after an
\* overlapping one was recorded in the same call.
C2_Witness ==
    /\ Compared
    /\ pc = "append"
    /\ z.formula = "nonoverlapping"
    /\ Len(upper_vals) = 6
    /\ \E a \in 1..Len(results) : results[a].z.formula = "overlapping"

\* C3: get_steigers_z raises ValueError for every corr_method other than
\* "spearman" and "pearson", before any pair is enumerated or any
\* correlation computed, and returns no table then; for "spearman" and
\* "pearson" the check raises nothing.
C3_MethodChecked ==
    (InSteiger /\ pc # "validate") =>
        IF args[1] \in {"spearman", "pearson"}
        THEN raised # "ValueError"
        ELSE /\ pc = "done"
             /\ raised = "ValueError"
             /\ ret = NoValue
             /\ first_order_pairs = <<>>
             /\ second_order_pairs = <<>>
             /\ pos = 0
             /\ upper_vals = <<>>
             /\ results = <<>>

\* C3 witness: a call with "kendall" on a table of at least 3 columns has
\* ended with ValueError.
C3_Witness ==
    /\ InSteiger
    /\ pc = "done"
    /\ args[1] = "kendall"
    /\ Len(df.columns) >= 3
    /\ raised = "ValueError"

\* The number a fixed-point string denotes, in units of 10^-Len(frac).
RECURSIVE DigitsValue(_)
DigitsValue(ds) ==
    IF ds = <<>> THEN 0 ELSE 10 * DigitsValue(SubSeq(ds, 1, Len(ds) - 1)) + ds[Len(ds)]

\* out is p written with exactly d decimals: d digits after the point, and
\* no number of d decimals is nearer to p.
WrittenWith(out, p, d) ==
    /\ out.kind = "fixed"
    /\ Len(out.frac) = d
    /\ \A a \in 1..d : out.frac[a] \in 0..9
    /\ LET v == out.int * Pow(10, d) + DigitsValue(out.frac)
           off == v * p.den - p.num * Pow(10, d)
       IN  2 * off <= p.den /\ 2 * off >= 0 - p.den

\* C4: format_pval_flt(p, digits) returns "<0.0001" for every p < 0.0001 and,
\* for every p >= 0.0001, 0.0001 itself included, p written with exactly
\* digits decimals; format_pval_df gives a series of the same length and
\* order whose i-th element is format_pval_flt of the i-th input.
C4_FormatRule ==
    /\ (fn = "format_pval_flt" /\ pc = "done" /\ Len(args) = 2 /\ args[2] # None) =>
           /\ raised = "none"
           /\ (args[1].den > 0 /\ args[1].num * 10000 < args[1].den) => ret = LT
           /\ (args[1].den > 0 /\ args[1].num * 10000 >= args[1].den) =>
                  WrittenWith(ret, args[1], args[2][1])
    /\ (fn = "format_pval_df" /\ pc = "done") =>
           LET d == IF args[1] = None THEN 4 ELSE args[1][1]
           IN  /\ raised = "none"
               /\ Len(ret) = Len(pvals)
               /\ \A a \in 1..Len(pvals) :
                      ret[a] = imported_format_pval_flt(<<pvals[a], Some(d)>>).value

\* C4 witness: format_pval_flt was called with p exactly 0.0001 and 2 digits
\* and wrote it with two decimals.
C4_Witness ==
    /\ fn = "format_pval_flt"
    /\ pc = "done"
    /\ args = <<Threshold, Some(2)>>
    /\ ret = [kind |-> "fixed", int |-> 0, frac |-> <<0, 0>>]

\* C5: called with the p-value alone, as get_steigers_z calls it for every
\* row, format_pval_flt uses 4 decimals and returns a formatted string, and
\* get_steigers_z goes on to return its result table. (A p-value that is
\* not a number is written "nan"; the claim is about the others.)
C5_DefaultDigits ==
    (InSteiger /\ args[1] \in {"spearman", "pearson"}) =>
        /\ raised # "TypeError"
        /\ \A a \in 1..Len(results) :
               \/ results[a].pvalue.kind \in {"<0.0001", "nan"}
               \/ results[a].pvalue.kind = "fixed" /\ Len(results[a].pvalue.frac) = 4
        /\ (pc = "loop" /\ pos > 0 /\ p_value.den > 0) =>
               IF p_value.num * 10000 < p_value.den
               THEN results[pos].pvalue = LT
               ELSE WrittenWith(results[pos].pvalue, p_value, 4)
        /\ (pc = "done" => raised = "none" /\ ret = results)

\* The rows of the caller's table that hold a value in every column of cols.
CompleteRows(cols) == {r \in 1..df.nrows : \A c \in cols : <<r, c>> \notin df.na}

\* C6: for each comparison, n and every correlation used in it are computed
\* from exactly the rows without a missing value in any of its 3 or 4
\* variables; a missing value in another column removes no row.
C6_CommonRows ==
    Compared =>
        LET involved == {pair[1][1], pair[1][2], pair[2][1], pair[2][2]}
            used == <<z.minuend, z.subtrahend>> \o z.others
        IN  /\ n = Cardinality(CompleteRows(involved))
            /\ z.n = n
            /\ \A a \in 1..Len(upper_vals) : upper_vals[a].rows = CompleteRows(involved)
            /\ \A a \in 1..Len(used) : used[a].rows = CompleteRows(involved)

\* C6 witness: a comparison was computed over a row that has a missing value
\* in a column outside the comparison, while another row was left out.
C6_Witness ==
    /\ Compared
    /\ pc = "append"
    /\ \E r \in temp.index : \E c \in Range(df.columns) \ Range(flat) : <<r, c>> \in df.na
    /\ temp.index # 1..df.nrows

\* A call of the function and arguments of the remembered call is over.
Repeated == pc = "done" /\ earlier # NoCall /\ earlier.fn = fn /\ earlier.args = args

C8_LabelledDifference ==
    (Compared /\ z.formula = "overlapping") =>
        LET label == comparison_label(pair)
            first == {label[1], label[2]}
            second == {label[3], label[4]}
        IN  /\ z.minuend.vars = first
            /\ z.subtrahend.vars = second
            /\ z.others[1].vars = (first \cup second) \ (first \cap second)

====
